---- MODULE Spec2Model ----
(***************************************************************************)
(* The greenfield image container: uniform quantization                    *)
(* (core/quantization.rs), the bit-packed pixel stream (compress and       *)
(* decompress), and the Image container with its deku-derived             *)
(* serialization (core/image.rs).                                          *)
(*                                                                         *)
(* Values of type u8 are naturals below 256 and u8 arithmetic is reduced   *)
(* modulo 256 where the code can wrap.  A usize is a pair of 32-bit limbs  *)
(* [hi, lo] standing for hi * 2^32 + lo, so that the 32-bit width and      *)
(* height fields of the header can be told apart from the usize fields of  *)
(* the Image.  Arithmetic that overflows, and shifts by an out-of-range    *)
(* amount, panic in a debug build and wrap in a release build: build       *)
(* selects which of the two the program was compiled as.                   *)
(***************************************************************************)
EXTENDS Integers, Sequences, FiniteSets, TLC

VARIABLES build, pc, qargs, quant, args, image, serialized, edit, buf, loaded,
          calls

vars == <<build, pc, qargs, quant, args, image, serialized, edit, buf, loaded,
          calls>>

----------------------------------------------------------------------------
(* Bounds of the model.                                                    *)

\* Largest width or height below 2^32 handed to Image::new, and the length
\* of the longest color list handed to it.
MaxDim == 2
\* Largest level handed to UniformQuantization::new.
MaxLevel == 9
\* Most bytes appended after a serialized image.
MaxExtra == 3

----------------------------------------------------------------------------
(* Program constants.                                                      *)

\* b"grnfld42"
MAGIC == <<103, 114, 110, 102, 108, 100, 52, 50>>
\* #[deku(bits = "32")] on width and on height
DimBits == 32
\* #[deku(bits = "4")] on bits_r, bits_g, bits_b
LevelBits == 4
\* width of a u8, the type of a channel and of a quantization level
U8Bits == 8

Builds == {"debug", "release"}

----------------------------------------------------------------------------
(* Results.                                                                *)

Ok(v) == [tag |-> "Ok", value |-> v]
Err(e) == [tag |-> "Err", error |-> e]
\* The thread panics: the call returns nothing.
Panic == [tag |-> "Panic"]
\* No call has been made yet.
None == [tag |-> "None"]

\* GreenfieldError::InvalidQuantizationLevel(u8, u8, u8)
InvalidQuantizationLevel(r, g, b) ==
    [variant |-> "InvalidQuantizationLevel", fields |-> <<r, g, b>>]
\* GreenfieldError::InvalidImageDimension(usize, usize)
InvalidImageDimension(found, expected) ==
    [variant |-> "InvalidImageDimension", fields |-> <<found, expected>>]
\* #[error("Invalid image dimensions: {0} Pixels found (expected {1})")]
DisplayError(e) ==
    IF e.variant = "InvalidImageDimension"
    THEN <<"Invalid image dimensions: ", e.fields[1],
           " Pixels found (expected ", e.fields[2], ")">>
    ELSE <<"Invalid quantization levels: ", e.fields[1], " ", e.fields[2], " ",
           e.fields[3], ". Levels must be between 1 and 8.">>
\* impl From<GreenfieldError> for DekuError: DekuError::Unexpected(e.to_string())
DekuFromGreenfield(e) == [variant |-> "Unexpected", msg |-> DisplayError(e)]
\* DekuError(#[from] DekuError)
GreenfieldFromDeku(d) == [variant |-> "DekuError", deku |-> d]
DekuIncomplete == [variant |-> "Incomplete", msg |-> <<>>]
DekuParse == [variant |-> "Parse", msg |-> <<"Missing magic value">>]

\* IoError(#[from] std::io::Error)
IoError == [variant |-> "IoError"]
\* ImageError(#[from] ImageError), of the given kind
ImageError(kind) == [variant |-> "ImageError", kind |-> kind]
\* The value of type ().
Unit == <<>>

----------------------------------------------------------------------------
(* usize values as two 32-bit limbs.                                       *)

USize(n) == [hi |-> 0, lo |-> n]
\* 2^32, the least width that does not fit the header's 32-bit field
TwoTo32 == [hi |-> 1, lo |-> 0]
\* a * b for operands of which at most one has a high limb and whose low
\* limbs multiply to less than 2^32 (no usize overflow)
UMul(a, b) == [hi |-> a.hi * b.lo + a.lo * b.hi, lo |-> a.lo * b.lo]

----------------------------------------------------------------------------
(* Bits and bytes, most significant bit first.                             *)

RECURSIVE BitsOf(_, _)
\* The n least significant bits of v, most significant first.
BitsOf(v, n) ==
    IF n = 0 THEN <<>> ELSE Append(BitsOf(v \div 2, n - 1), v % 2)

RECURSIVE LoadBits(_)
\* The unsigned big-endian integer a bit sequence holds.
LoadBits(bits) ==
    IF bits = <<>> THEN 0
    ELSE 2 * LoadBits(SubSeq(bits, 1, Len(bits) - 1)) + bits[Len(bits)]

RECURSIVE BytesToBits(_)
BytesToBits(bytes) ==
    IF bytes = <<>> THEN <<>>
    ELSE BitsOf(Head(bytes), U8Bits) \o BytesToBits(Tail(bytes))

RECURSIVE BitsToBytes(_)
\* BitVec::into_vec: whole bytes, the last one padded with zero bits.
BitsToBytes(bits) ==
    IF bits = <<>> THEN <<>>
    ELSE IF Len(bits) < U8Bits
         THEN <<LoadBits(bits \o [i \in 1..(U8Bits - Len(bits)) |-> 0])>>
         ELSE <<LoadBits(SubSeq(bits, 1, U8Bits))>>
              \o BitsToBytes(SubSeq(bits, U8Bits + 1, Len(bits)))

----------------------------------------------------------------------------
(* core/color.rs and core/quantization.rs                                  *)

Rgb(r, g, b) == [r |-> r, g |-> g, b |-> b]

UniformQuantization(bits_r, bits_g, bits_b) ==
    [bits_r |-> bits_r, bits_g |-> bits_g, bits_b |-> bits_b]

\* impl Default for UniformQuantization
UniformQuantization_default == UniformQuantization(8, 8, 8)

\* LevelsInRange with the lower end of the range off by one.
LevelsInRangeFromZero(bits_r, bits_g, bits_b) ==
    /\ bits_r \in 0..8
    /\ bits_g \in 0..8
    /\ bits_b \in 0..8

\* The match arm (1..=8, 1..=8, 1..=8) of UniformQuantization::new.
LevelsInRange(bits_r, bits_g, bits_b) ==
    /\ bits_r \in 1..8
    /\ bits_g \in 1..8
    /\ bits_b \in 1..8

UniformQuantization_new(bits_r, bits_g, bits_b) ==
    IF LevelsInRange(bits_r, bits_g, bits_b)
    THEN Ok(UniformQuantization(bits_r, bits_g, bits_b))
    ELSE Err(InvalidQuantizationLevel(bits_r, bits_g, bits_b))

\* Marks a u8 expression that panicked.
Overflowed == -1

\* The amount a u8 is shifted by when the code asks for a shift by s: the
\* amount itself when it is in 0..7; otherwise a debug build panics and a
\* release build uses the amount's low three bits.
ShiftInRange(s) == s \in 0..(U8Bits - 1)
MaskedShift(s) == s % U8Bits

\* x >> 7 - bits_x: one bit too many is kept.
QuantizeChannelKeepsOneMore(x, bits_x) ==
    LET s == 7 - bits_x IN
    IF build = "debug" /\ ~ShiftInRange(s) THEN Overflowed
    ELSE x \div (2 ^ MaskedShift(s))

\* x >> 8 - bits_x
QuantizeChannel(x, bits_x) ==
    LET s == 8 - bits_x IN
    IF build = "debug" /\ ~ShiftInRange(s) THEN Overflowed
    ELSE x \div (2 ^ MaskedShift(s))

\* (x << (8 - bits_x)) + (1 << (8 - bits_x)): the low edge of the next cell.
DequantizeChannelNextCell(x, bits_x) ==
    LET s1 == 8 - bits_x
        sum == ((x * (2 ^ MaskedShift(s1))) % 256) + (2 ^ MaskedShift(s1))
    IN  IF build = "debug" /\ (~ShiftInRange(s1) \/ sum > 255)
        THEN Overflowed
        ELSE sum % 256

\* x << (8 - bits_x): the low edge of the cell.
DequantizeChannelLowEdge(x, bits_x) ==
    LET s1 == 8 - bits_x
    IN  IF build = "debug" /\ ~ShiftInRange(s1)
        THEN Overflowed
        ELSE (x * (2 ^ MaskedShift(s1))) % 256

\* (x << (8 - bits_x)) + (1 << (7 - bits_x))
DequantizeChannel(x, bits_x) ==
    LET s1 == 8 - bits_x
        s2 == 7 - bits_x
        sum == ((x * (2 ^ MaskedShift(s1))) % 256) + (2 ^ MaskedShift(s2))
    IN  IF build = "debug" /\ (~ShiftInRange(s1) \/ ~ShiftInRange(s2) \/ sum > 255)
        THEN Overflowed
        ELSE sum % 256

\* A color one of whose channels panicked: the call that computes it panics.
Panicked(color) == Overflowed \in {color.r, color.g, color.b}

get_quantized_color(self, color) ==
    IF self = UniformQuantization(8, 8, 8)
    THEN Rgb(color.r, color.g, color.b)
    ELSE Rgb(QuantizeChannel(color.r, self.bits_r),
             QuantizeChannel(color.g, self.bits_g),
             QuantizeChannel(color.b, self.bits_b))

\* get_dequantized_color without the arm for (8,8,8).
get_dequantized_color_no_fast_path(self, color) ==
    Rgb(DequantizeChannel(color.r, self.bits_r),
        DequantizeChannel(color.g, self.bits_g),
        DequantizeChannel(color.b, self.bits_b))

get_dequantized_color(self, color) ==
    IF self = UniformQuantization(8, 8, 8)
    THEN Rgb(color.r, color.g, color.b)
    ELSE Rgb(DequantizeChannel(color.r, self.bits_r),
             DequantizeChannel(color.g, self.bits_g),
             DequantizeChannel(color.b, self.bits_b))

\* The color quantify_color leaves behind: the channels are shifted one
\* after the other, and a panic leaves the later ones untouched.
quantify_color(self, color) ==
    IF self = UniformQuantization(8, 8, 8) THEN color
    ELSE LET r == QuantizeChannel(color.r, self.bits_r)
             g == QuantizeChannel(color.g, self.bits_g)
             b == QuantizeChannel(color.b, self.bits_b)
         IN  IF r = Overflowed THEN Rgb(Overflowed, color.g, color.b)
             ELSE IF g = Overflowed THEN Rgb(r, Overflowed, color.b)
             ELSE Rgb(r, g, b)

\* dequantify_color without the arm for (8,8,8).
dequantify_color_no_fast_path(self, color) ==
    Rgb(DequantizeChannel(color.r, self.bits_r),
        DequantizeChannel(color.g, self.bits_g),
        DequantizeChannel(color.b, self.bits_b))

\* The color dequantify_color leaves behind.
dequantify_color(self, color) ==
    IF self = UniformQuantization(8, 8, 8) THEN color
    ELSE LET r == DequantizeChannel(color.r, self.bits_r)
             g == DequantizeChannel(color.g, self.bits_g)
             b == DequantizeChannel(color.b, self.bits_b)
         IN  IF r = Overflowed THEN Rgb(Overflowed, color.g, color.b)
             ELSE IF g = Overflowed THEN Rgb(r, Overflowed, color.b)
             ELSE Rgb(r, g, b)

\* A bit field of n bits can be loaded into or stored from a u8 only when
\* 1 <= n <= 8; BitField::load_be and store_be panic otherwise.
FieldFitsU8(n) == n \in 1..U8Bits

FieldsFitU8(self) ==
    /\ FieldFitsU8(self.bits_r)
    /\ FieldFitsU8(self.bits_g)
    /\ FieldFitsU8(self.bits_b)

\* compressed_data[a..b].store_be(x): the low (b - a) bits of x.
store_be(x, n) == BitsOf(x, n)

\* chunk[a..b].load_be::<u8>()
load_be(bits) == LoadBits(bits)

\* The bits of one color with the blue field written first.
CompressColorBlueFirst(self, color) ==
    LET q == get_quantized_color(self, color) IN
    store_be(q.b, self.bits_b) \o store_be(q.g, self.bits_g)
    \o store_be(q.r, self.bits_r)

\* The bits compress writes for one color.
CompressColor(self, color) ==
    LET q == get_quantized_color(self, color) IN
    store_be(q.r, self.bits_r) \o store_be(q.g, self.bits_g)
    \o store_be(q.b, self.bits_b)

RECURSIVE CompressFrom(_, _, _)
CompressFrom(self, colors, i) ==
    IF i > Len(colors) THEN <<>>
    ELSE CompressColor(self, colors[i]) \o CompressFrom(self, colors, i + 1)

\* Ok(bits), or a panic when a color cannot be quantized or stored.
compress(self, colors) ==
    IF \E i \in 1..Len(colors) :
           Panicked(get_quantized_color(self, colors[i])) \/ ~FieldsFitU8(self)
    THEN Panic
    ELSE Ok(CompressFrom(self, colors, 1))

\* The color decompress reads from one chunk.
DecompressChunk(self, chunk) ==
    IF ~FieldsFitU8(self)
    THEN Rgb(Overflowed, Overflowed, Overflowed)
    ELSE LET r == load_be(SubSeq(chunk, 1, self.bits_r))
             g == load_be(SubSeq(chunk, self.bits_r + 1, self.bits_r + self.bits_g))
             b == load_be(SubSeq(chunk, self.bits_r + self.bits_g + 1, Len(chunk)))
         IN  get_dequantized_color(self, Rgb(r, g, b))

\* Ok(colors), one per whole chunk of data; chunks_exact panics on a chunk
\* size of 0, and a chunk that cannot be loaded or dequantized panics.
decompress(self, data) ==
    LET data_size == self.bits_r + self.bits_g + self.bits_b IN
    IF data_size = 0 THEN Panic
    ELSE LET colors == [k \in 1..(Len(data) \div data_size) |->
                           DecompressChunk(self,
                               SubSeq(data, (k - 1) * data_size + 1, k * data_size))]
         IN  IF \E k \in 1..Len(colors) : Panicked(colors[k]) THEN Panic
             ELSE Ok(colors)

----------------------------------------------------------------------------
(* core/image.rs                                                           *)

Image(width, height, uniform_quantization, data) ==
    [width |-> width, height |-> height,
     uniform_quantization |-> uniform_quantization, data |-> data]

\* The colors kept as they were given.
QuantizeNone(uniform_quantization, data) == Ok(data)

\* data.into_iter().map(|c| uniform_quantization.get_quantized_color(&c))
QuantizeAll(uniform_quantization, data) ==
    LET out == [i \in 1..Len(data) |->
                   get_quantized_color(uniform_quantization, data[i])]
    IN  IF \E i \in 1..Len(data) : Panicked(out[i]) THEN Panic ELSE Ok(out)

\* SizeMatches accepting a color list shorter than width * height.
SizeAtLeast(size, data_len) ==
    \/ size = data_len
    \/ data_len.hi < size.hi
    \/ (data_len.hi = size.hi /\ data_len.lo < size.lo)

\* The test size == data_len of Image::new.
SizeMatches(size, data_len) == size = data_len

Image_new(width, height, uniform_quantization, data) ==
    LET size == UMul(width, height)
        data_len == USize(Len(data))
    IN  IF SizeMatches(size, data_len)
        THEN LET quantized == QuantizeAll(uniform_quantization, data)
             IN  IF quantized = Panic THEN Panic
                 ELSE Ok(Image(width, height, uniform_quantization,
                               quantized.value))
        ELSE Err(InvalidImageDimension(data_len, size))

\* The low 32 bits of a usize written least significant byte first.
WriteDimLittleEndian(v) ==
    BitsOf(v.lo % 256, 8) \o BitsOf((v.lo \div 256) % 256, 8)
    \o BitsOf((v.lo \div 65536) % 256, 8) \o BitsOf(v.lo \div 16777216, 8)

\* #[deku(bits = "32")] width: usize, written big-endian: the low 32 bits
\* of the usize.
WriteDim(v) == BitsOf(v.lo, DimBits)
\* The same field read back into a usize.
ReadDim(bits) == USize(LoadBits(bits))
\* #[deku(bits = "4")] bits_r: u8: the low 4 bits of the u8.
WriteLevel(v) == BitsOf(v, LevelBits)
ReadLevel(bits) == LoadBits(bits)

MagicBits == Len(MAGIC) * U8Bits
\* magic, width, height and the three levels: 140 bits
HeaderBits == MagicBits + 2 * DimBits + 3 * LevelBits

data_write(data, uniform_quantization, width, height) ==
    LET data_len == USize(Len(data))
        count == UMul(width, height)
    IN  IF count = data_len
        THEN compress(uniform_quantization, data)
        ELSE Err(InvalidImageDimension(data_len, count))

\* Image::serialize: the derived DekuWrite, then BitVec::into_vec.  An error
\* of data_write reaches the caller as a DekuError.
serialize(self) ==
    LET q == self.uniform_quantization
        header == BytesToBits(MAGIC) \o WriteDim(self.width)
                  \o WriteDim(self.height) \o WriteLevel(q.bits_r)
                  \o WriteLevel(q.bits_g) \o WriteLevel(q.bits_b)
        written == data_write(self.data, q, self.width, self.height)
    IN  IF written = Panic THEN Panic
        ELSE IF written.tag = "Err"
             THEN Err(GreenfieldFromDeku(DekuFromGreenfield(written.error)))
             ELSE Ok(BitsToBytes(header \o written.value))

\* CountMatches accepting more chunks than width * height.
CountAtMost(count, data_len) ==
    \/ count = data_len
    \/ count.hi < data_len.hi
    \/ (count.hi = data_len.hi /\ count.lo < data_len.lo)

\* The test count == data_len of data_read.
CountMatches(count, data_len) == count = data_len

data_read(rest, uniform_quantization, width, height) ==
    LET bits == uniform_quantization.bits_r + uniform_quantization.bits_g
                + uniform_quantization.bits_b
        count == UMul(width, height)
    IN  IF bits = 0 THEN Panic  \* rest.len() / bits divides by zero
        ELSE LET data_len == USize(Len(rest) \div bits) IN
             IF CountMatches(count, data_len)
             THEN decompress(uniform_quantization, rest)
             ELSE Err(InvalidImageDimension(data_len, count))

\* MagicRead comparing all but the last byte of the magic value.
MagicReadAllButLast(bytes) ==
    LET n == IF Len(bytes) < Len(MAGIC) THEN Len(bytes) ELSE Len(MAGIC) - 1 IN
    IF \E i \in 1..n : bytes[i] # MAGIC[i] THEN "Parse"
    ELSE IF Len(bytes) < Len(MAGIC) THEN "Incomplete"
    ELSE "Ok"

\* #[deku(magic = b"grnfld42")]: the bytes are read and compared one at a
\* time; a byte that differs is a parse error, a byte that is missing an
\* incomplete read.
MagicRead(bytes) ==
    LET n == IF Len(bytes) < Len(MAGIC) THEN Len(bytes) ELSE Len(MAGIC) IN
    IF \E i \in 1..n : bytes[i] # MAGIC[i] THEN "Parse"
    ELSE IF Len(bytes) < Len(MAGIC) THEN "Incomplete"
    ELSE "Ok"

\* Image::deserialize: the derived DekuRead over the whole buffer.
deserialize(bytes) ==
    LET magic == MagicRead(bytes)
        bits == BytesToBits(bytes)
    IN  IF magic = "Parse" THEN Err(GreenfieldFromDeku(DekuParse))
        ELSE IF magic = "Incomplete" \/ Len(bits) < HeaderBits
        THEN Err(GreenfieldFromDeku(DekuIncomplete))
        ELSE LET w0 == MagicBits
                 h0 == w0 + DimBits
                 q0 == h0 + DimBits
                 width == ReadDim(SubSeq(bits, w0 + 1, w0 + DimBits))
                 height == ReadDim(SubSeq(bits, h0 + 1, h0 + DimBits))
                 q == UniformQuantization(
                          ReadLevel(SubSeq(bits, q0 + 1, q0 + LevelBits)),
                          ReadLevel(SubSeq(bits, q0 + LevelBits + 1, q0 + 2 * LevelBits)),
                          ReadLevel(SubSeq(bits, q0 + 2 * LevelBits + 1, q0 + 3 * LevelBits)))
                 rest == SubSeq(bits, HeaderBits + 1, Len(bits))
                 read == data_read(rest, q, width, height)
             IN  IF read = Panic THEN Panic
                 ELSE IF read.tag = "Err"
                 THEN Err(GreenfieldFromDeku(DekuFromGreenfield(read.error)))
                 ELSE Ok(Image(width, height, q, read.value))

\* Pixel::new(x, y, &color)
Pixel(x, y, color) == [x |-> x, y |-> y, color |-> color]

\* i / v and i % v for an index i below 2^32 and a usize v other than 0.
UDiv(i, v) == IF v.hi > 0 THEN 0 ELSE i \div v.lo
UMod(i, v) == IF v.hi > 0 THEN i ELSE i % v.lo

\* Pixel::new(i / self.width, i % self.height, &color)
PixelAt(self, i, color) ==
    Pixel(UDiv(i, self.width), UMod(i, self.height), color)

\* Image::pixels, collected: Ok(pixels), or a panic when a stored color
\* meets a width or a height of 0.
pixels(self) ==
    IF self.data # <<>> /\ USize(0) \in {self.width, self.height}
    THEN Panic
    ELSE Ok([k \in 1..Len(self.data) |-> PixelAt(self, k - 1, self.data[k])])

\* Image::bytes, collected: the three bytes of each stored color.
RECURSIVE BytesFrom(_, _)
BytesFrom(data, i) ==
    IF i > Len(data) THEN <<>>
    ELSE <<data[i].r, data[i].g, data[i].b>> \o BytesFrom(data, i + 1)

Image_bytes(self) == BytesFrom(self.data, 1)

\* Image::to_file: written is the outcome of std::fs::write.
to_file(self, written) ==
    LET serialized_self == serialize(self) IN
    IF serialized_self = Panic THEN Panic
    ELSE IF serialized_self.tag = "Err" THEN serialized_self
    ELSE IF written = "Err" THEN Err(IoError)
    ELSE Ok(Unit)

\* Image::from_file: read is the outcome of std::fs::read.
from_file(read) ==
    IF read.tag = "Err" THEN Err(IoError) ELSE deserialize(read.value)

\* Any failure of the external codec, not only an unsupported format.
IsFailure(kind) == kind \in {"Unsupported", "IoError"}

\* The arm Err(image::ImageError::Unsupported(_)) of load_image and of
\* save_image.
IsUnsupported(kind) == kind = "Unsupported"

\* io::load_image: opened is the outcome of image::open(path), read the
\* outcome of reading the file.  ret is what the caller receives, read_file
\* tells whether Image::from_file was called.
load_image(opened, read, uniform_quantization) ==
    IF opened.kind = "Rgb8"
    THEN [ret |-> Image_new(USize(opened.width), USize(opened.height),
                            uniform_quantization, opened.data),
          read_file |-> FALSE]
    ELSE IF opened.kind = "NotRgb8"
    THEN [ret |-> Err(InvalidImageDimension(
                          USize(opened.width * opened.height * 3), USize(0))),
          read_file |-> FALSE]
    ELSE IF IsUnsupported(opened.kind)
    THEN [ret |-> from_file(read), read_file |-> TRUE]
    ELSE [ret |-> Err(ImageError(opened.kind)), read_file |-> FALSE]

\* The arm _ => Ok(()) of save_image.
SaveOtherwise(encoded) == Ok(Unit)

\* io::save_image: encoded is the outcome of image::save_buffer, written
\* the outcome of writing the file.  buffer, width and height are what
\* save_buffer is handed, ret is what the caller receives, to_file tells
\* whether Image::to_file was called.
save_image(image_, encoded, written) ==
    [buffer |-> Image_bytes(image_),
     width |-> image_.width.lo,
     height |-> image_.height.lo,
     ret |-> IF IsUnsupported(encoded) THEN to_file(image_, written)
             ELSE SaveOtherwise(encoded),
     to_file |-> IsUnsupported(encoded)]

----------------------------------------------------------------------------
(* Inputs.                                                                 *)

\* Levels handed to UniformQuantization::new.
Levels == 0..MaxLevel

\* The schemes images are built with: full precision, the 16-bit scheme of
\* the documentation, the two narrowest uniform schemes, and one that mixes
\* an 8-bit channel with narrower ones.
ImageSchemes ==
    {UniformQuantization(8, 8, 8), UniformQuantization(5, 6, 5),
     UniformQuantization(1, 1, 1), UniformQuantization(2, 2, 2),
     UniformQuantization(8, 5, 5)}

\* Full-precision colors handed to Image::new.
Colors == {Rgb(0, 0, 0), Rgb(255, 255, 255), Rgb(12, 6, 12)}

ColorLists == UNION {[1..n -> Colors] : n \in 0..MaxDim}

\* Widths and heights handed to Image::new: the small ones and 2^32.
Dims == {USize(n) : n \in 0..MaxDim} \cup {TwoTo32}

\* Values of the bytes appended to a buffer.
ExtraBytes == {0, 255}

\* Values written over the three 4-bit levels of a header.
HeaderLevels == {0, 8, 9}

\* x with bit k (0 the least significant) inverted
FlipBit(x, k) == IF (x \div (2 ^ k)) % 2 = 1 THEN x - 2 ^ k ELSE x + 2 ^ k

----------------------------------------------------------------------------
(* The state machine: a scheme is made; then either an image is built with  *)
(* it and serialized, the bytes are possibly altered on their way, and a   *)
(* buffer is deserialized, or the scheme's own functions are called, the   *)
(* result of one call being handed to the next.                            *)

Init ==
    /\ build \in Builds
    /\ pc = "start"
    /\ qargs = [call |-> "none", levels |-> <<>>]
    /\ quant = None
    /\ args = None
    /\ image = None
    /\ serialized = None
    /\ edit = "none"
    /\ buf = <<>>
    /\ loaded = None
    /\ calls = <<>>

\* UniformQuantization::new(bits_r, bits_g, bits_b)
QuantizationNew(bits_r, bits_g, bits_b) ==
    /\ pc = "start"
    /\ qargs' = [call |-> "new", levels |-> <<bits_r, bits_g, bits_b>>]
    /\ quant' = UniformQuantization_new(bits_r, bits_g, bits_b)
    /\ pc' = "quant"
    /\ UNCHANGED <<build, args, image, serialized, edit, buf, loaded, calls>>

\* UniformQuantization::default()
QuantizationDefault ==
    /\ pc = "start"
    /\ qargs' = [call |-> "default", levels |-> <<>>]
    /\ quant' = Ok(UniformQuantization_default)
    /\ pc' = "quant"
    /\ UNCHANGED <<build, args, image, serialized, edit, buf, loaded, calls>>

\* Image::new(width, height, quant, data), for the schemes of ImageSchemes
\* and dimensions whose product fits a usize.
ImageNew(width, height, data) ==
    /\ pc = "quant"
    /\ quant.tag = "Ok"
    /\ quant.value \in ImageSchemes
    /\ width.hi * height.hi = 0
    /\ args' = Image(width, height, quant.value, data)
    /\ image' = Image_new(width, height, quant.value, data)
    /\ pc' = "image"
    /\ UNCHANGED <<build, qargs, quant, serialized, edit, buf, loaded, calls>>

\* image.serialize()
Serialize ==
    /\ pc = "image"
    /\ image.tag = "Ok"
    /\ serialized' = serialize(image.value)
    /\ buf' = IF serialized'.tag = "Ok" THEN serialized'.value ELSE <<>>
    /\ pc' = IF serialized'.tag = "Ok" THEN "buffer" ELSE "failed"
    /\ UNCHANGED <<build, qargs, quant, args, image, edit, loaded, calls>>

\* n bytes follow the serialized image.
AppendBytes(n, x) ==
    /\ pc = "buffer"
    /\ edit = "none"
    /\ buf' = buf \o [i \in 1..n |-> x]
    /\ edit' = "append"
    /\ UNCHANGED <<build, pc, qargs, quant, args, image, serialized, loaded, calls>>

\* Only the first k bytes of the serialized image arrive.
Truncate(k) ==
    /\ pc = "buffer"
    /\ edit = "none"
    /\ k < Len(buf)
    /\ buf' = SubSeq(buf, 1, k)
    /\ edit' = "truncate"
    /\ UNCHANGED <<build, pc, qargs, quant, args, image, serialized, loaded, calls>>

\* One bit of the magic value is inverted.
FlipMagicBit(i, k) ==
    /\ pc = "buffer"
    /\ edit = "none"
    /\ buf' = [buf EXCEPT ![i] = FlipBit(buf[i], k)]
    /\ edit' = "magic"
    /\ UNCHANGED <<build, pc, qargs, quant, args, image, serialized, loaded, calls>>

\* The three 4-bit levels of the header are overwritten.
SetLevels(bits_r, bits_g, bits_b) ==
    LET at == (MagicBits + 2 * DimBits) \div U8Bits IN
    /\ pc = "buffer"
    /\ edit = "none"
    /\ buf' = [buf EXCEPT ![at + 1] = bits_r * 16 + bits_g,
                          ![at + 2] = bits_b * 16 + (buf[at + 2] % 16)]
    /\ buf' # buf
    /\ edit' = "levels"
    /\ UNCHANGED <<build, pc, qargs, quant, args, image, serialized, loaded, calls>>

\* Image::deserialize(&buf)
Deserialize ==
    /\ pc = "buffer"
    /\ loaded' = deserialize(buf)
    /\ pc' = "loaded"
    /\ UNCHANGED <<build, qargs, quant, args, image, serialized, edit, buf, calls>>

\* Channel values of the colors handed to the scheme's functions: the ends
\* of the u8 range, the boundaries of the coarsest cells, and values inside.
ChannelValues == <<0, 1, 7, 12, 31, 64, 100, 127, 128, 200, 254, 255>>

\* The channel value that follows the i-th by k places, cyclically.
ChannelValue(i, k) == ChannelValues[((i + k - 1) % Len(ChannelValues)) + 1]

\* Colors handed to the functions of every scheme: one with three equal
\* channels and one with three different channels per channel value, and
\* the colors images are built from.
CallColors ==
    {Rgb(ChannelValue(i, 0), ChannelValue(i, 0), ChannelValue(i, 0)) :
        i \in 1..Len(ChannelValues)}
    \cup {Rgb(ChannelValue(i, 0), ChannelValue(i, 4), ChannelValue(i, 8)) :
        i \in 1..Len(ChannelValues)}
    \cup Colors

\* Every value of a channel, handed to the functions of the schemes of
\* ImageSchemes.
Grays == {Rgb(v, v, v) : v \in 0..(2 ^ U8Bits - 1)}

\* Bits that follow a compressed stream.
TrailingBits == {<<>>, <<1>>, <<0, 1>>}

\* The last call made.
LastCall == calls[Len(calls)]

\* The call before this one was op and returned a color.
Returned(op) ==
    /\ calls # <<>>
    /\ LastCall.op = op
    /\ ~Panicked(LastCall.result)

\* What get_quantized_color is called with: a color of the caller's, or the
\* color get_dequantized_color returned.
QuantizeInputs ==
    IF calls = <<>>
    THEN IF quant.tag # "Ok" THEN {}
         ELSE CallColors
              \cup (IF quant.value \in ImageSchemes THEN Grays ELSE {})
    ELSE IF Len(calls) \in {1, 2} /\ Returned("get_dequantized_color")
    THEN {LastCall.result}
    ELSE {}

\* What get_dequantized_color is called with: a color of the caller's, or
\* the color get_quantized_color returned.
DequantizeInputs ==
    IF calls = <<>>
    THEN IF quant.tag # "Ok" THEN {}
         ELSE CallColors
              \cup (IF quant.value \in ImageSchemes THEN Grays ELSE {})
    ELSE IF Len(calls) = 1 /\ Returned("get_quantized_color")
    THEN {LastCall.result}
    ELSE {}

\* What decompress is called with: the stream compress returned, followed
\* by a few bits or short of its last bit.
DecompressInputs ==
    IF Len(calls) = 1 /\ LastCall.op = "compress" /\ LastCall.result.tag = "Ok"
    THEN LET bits == LastCall.result.value IN
         {bits \o t : t \in TrailingBits}
         \cup (IF bits = <<>> THEN {} ELSE {SubSeq(bits, 1, Len(bits) - 1)})
    ELSE {}

Call(op, arg, result) == [op |-> op, arg |-> arg, result |-> result]

\* quant.get_quantized_color(&color)
GetQuantizedColor(color) ==
    /\ pc \in {"quant", "calls"}
    /\ quant.tag = "Ok"
    /\ color \in QuantizeInputs
    /\ calls' = Append(calls, Call("get_quantized_color", color,
                                   get_quantized_color(quant.value, color)))
    /\ pc' = "calls"
    /\ UNCHANGED <<build, qargs, quant, args, image, serialized, edit, buf,
                   loaded>>

\* quant.get_dequantized_color(&color)
GetDequantizedColor(color) ==
    /\ pc \in {"quant", "calls"}
    /\ quant.tag = "Ok"
    /\ color \in DequantizeInputs
    /\ calls' = Append(calls, Call("get_dequantized_color", color,
                                   get_dequantized_color(quant.value, color)))
    /\ pc' = "calls"
    /\ UNCHANGED <<build, qargs, quant, args, image, serialized, edit, buf,
                   loaded>>

\* quant.compress(&colors)
Compress(colors) ==
    /\ pc = "quant"
    /\ quant.tag = "Ok"
    /\ calls' = <<Call("compress", colors, compress(quant.value, colors))>>
    /\ pc' = "calls"
    /\ UNCHANGED <<build, qargs, quant, args, image, serialized, edit, buf,
                   loaded>>

\* quant.decompress(&data)
Decompress(data) ==
    /\ pc = "calls"
    /\ data \in DecompressInputs
    /\ calls' = Append(calls, Call("decompress", data,
                                   decompress(quant.value, data)))
    /\ UNCHANGED <<build, pc, qargs, quant, args, image, serialized, edit, buf,
                   loaded>>

\* The image at hand: the one Image::new returned or the one
\* Image::deserialize returned.
ImagesAtHand ==
    IF pc = "image" /\ image.tag = "Ok" THEN {image.value}
    ELSE IF pc = "loaded" /\ loaded.tag = "Ok" THEN {loaded.value}
    ELSE {}

\* img.pixels().collect()
Pixels(img) ==
    /\ img \in ImagesAtHand
    /\ calls' = <<Call("pixels", img, pixels(img))>>
    /\ pc' = "calls"
    /\ UNCHANGED <<build, qargs, quant, args, image, serialized, edit, buf,
                   loaded>>

\* What image::open can return: a decoded RGB image, a decoded image of
\* another color type, an unsupported format, or another failure.
Decodings ==
    {[kind |-> "Rgb8", width |-> 1, height |-> 1,
      data |-> <<Rgb(255, 255, 255)>>],
     [kind |-> "Rgb8", width |-> 2, height |-> 1,
      data |-> <<Rgb(12, 6, 12), Rgb(0, 0, 0)>>],
     [kind |-> "NotRgb8", width |-> 1, height |-> 1, data |-> <<>>],
     [kind |-> "Unsupported", width |-> 0, height |-> 0, data |-> <<>>],
     [kind |-> "IoError", width |-> 0, height |-> 0, data |-> <<>>]}

\* What image::save_buffer can return.
Encodings == {"Written", "Unsupported", "IoError"}

\* What reading the file of the buffer can return.
Reads == {Ok(buf), Err(IoError)}

\* What writing a file can return.
Writes == {"Ok", "Err"}

\* load_image(&path, quant), the file at path holding the serialized image
LoadImage(opened, read) ==
    /\ pc = "buffer"
    /\ edit = "none"
    /\ calls' = <<Call("load_image", [opened |-> opened, read |-> read],
                       load_image(opened, read, quant.value))>>
    /\ pc' = "calls"
    /\ UNCHANGED <<build, qargs, quant, args, image, serialized, edit, buf,
                   loaded>>

\* save_image(&img, &path)
SaveImage(img, encoded, written) ==
    /\ img \in ImagesAtHand
    /\ calls' = <<Call("save_image",
                       [image |-> img, encoded |-> encoded, written |-> written],
                       save_image(img, encoded, written))>>
    /\ pc' = "calls"
    /\ UNCHANGED <<build, qargs, quant, args, image, serialized, edit, buf,
                   loaded>>

\* loaded.serialize(), for the image Image::deserialize returned
SerializeLoaded ==
    /\ pc = "loaded"
    /\ loaded.tag = "Ok"
    /\ calls' = <<Call("serialize", loaded.value, serialize(loaded.value))>>
    /\ pc' = "calls"
    /\ UNCHANGED <<build, qargs, quant, args, image, serialized, edit, buf,
                   loaded>>

\* Image::deserialize of the bytes the loaded image was serialized to
DeserializeAgain ==
    /\ pc = "calls"
    /\ Len(calls) = 1
    /\ LastCall.op = "serialize"
    /\ LastCall.result.tag = "Ok"
    /\ calls' = Append(calls, Call("deserialize", LastCall.result.value,
                                   deserialize(LastCall.result.value)))
    /\ UNCHANGED <<build, pc, qargs, quant, args, image, serialized, edit, buf,
                   loaded>>

\* What quantify_color and dequantify_color are called with.
InPlaceInputs ==
    IF calls = <<>> /\ quant.tag = "Ok" THEN CallColors ELSE {}

\* quant.quantify_color(&mut color)
QuantifyColor(color) ==
    /\ pc = "quant"
    /\ color \in InPlaceInputs
    /\ calls' = <<Call("quantify_color", color,
                       quantify_color(quant.value, color))>>
    /\ pc' = "calls"
    /\ UNCHANGED <<build, qargs, quant, args, image, serialized, edit, buf,
                   loaded>>

\* quant.dequantify_color(&mut color)
DequantifyColor(color) ==
    /\ pc = "quant"
    /\ color \in InPlaceInputs
    /\ calls' = <<Call("dequantify_color", color,
                       dequantify_color(quant.value, color))>>
    /\ pc' = "calls"
    /\ UNCHANGED <<build, qargs, quant, args, image, serialized, edit, buf,
                   loaded>>

Next ==
    \/ \E r \in Levels, g \in Levels, b \in Levels : QuantizationNew(r, g, b)
    \/ QuantizationDefault
    \/ \E w \in Dims, h \in Dims, d \in ColorLists : ImageNew(w, h, d)
    \/ Serialize
    \/ \E n \in 1..MaxExtra, x \in ExtraBytes : AppendBytes(n, x)
    \/ \E k \in 0..(HeaderBits \div U8Bits + 3 * MaxDim) : Truncate(k)
    \/ \E i \in 1..Len(MAGIC), k \in 0..(U8Bits - 1) : FlipMagicBit(i, k)
    \/ \E r \in HeaderLevels, g \in HeaderLevels, b \in HeaderLevels :
           SetLevels(r, g, b)
    \/ Deserialize
    \/ \E color \in QuantizeInputs : GetQuantizedColor(color)
    \/ \E color \in DequantizeInputs : GetDequantizedColor(color)
    \/ \E colors \in ColorLists : Compress(colors)
    \/ \E data \in DecompressInputs : Decompress(data)
    \/ \E img \in ImagesAtHand : Pixels(img)
    \/ \E color \in InPlaceInputs : QuantifyColor(color)
    \/ \E color \in InPlaceInputs : DequantifyColor(color)
    \/ SerializeLoaded
    \/ DeserializeAgain
    \/ \E opened \in Decodings, read \in Reads : LoadImage(opened, read)
    \/ \E img \in ImagesAtHand, encoded \in Encodings, written \in Writes :
           SaveImage(img, encoded, written)

Spec == Init /\ [][Next]_vars

----------------------------------------------------------------------------
(* Properties.                                                             *)

\* The buffer that was deserialized is the serialized image, unaltered.
RoundTripped == pc = "loaded" /\ edit = "none"

\* A usize that fits the 32-bit fields of the header.
Fits32(v) == v.hi = 0

FullPrecision == UniformQuantization(8, 8, 8)

\* The b-bit field of channel c (0 for red, 1 for green, 2 for blue) of
\* pixel i in the bit stream that follows the header of bytes.
PixelField(bytes, q, i, c) ==
    LET chunk == q.bits_r + q.bits_g + q.bits_b
        from == HeaderBits + (i - 1) * chunk
                + (IF c = 0 THEN 0 ELSE q.bits_r)
                + (IF c = 2 THEN q.bits_g ELSE 0)
        width == IF c = 0 THEN q.bits_r ELSE IF c = 1 THEN q.bits_g ELSE q.bits_b
    IN  LoadBits(SubSeq(BytesToBits(bytes), from + 1, from + width))

\* C1: an image built by Image::new, of any valid scheme, serialized and
\* then deserialized, comes back Ok with the same width, height, scheme and
\* stored colors.
C1_RoundTripAnyScheme ==
    RoundTripped => (loaded.tag = "Ok" /\ loaded.value = image.value)

\* C2: quantization is applied once: each field of the serialized pixel
\* stream equals the value the image stores for that pixel and channel.
C2_QuantizedOnce ==
    serialized.tag = "Ok" =>
        \A i \in 1..Len(image.value.data) :
            LET q == image.value.uniform_quantization
                stored == image.value.data[i]
            IN  /\ PixelField(serialized.value, q, i, 0) = stored.r
                /\ PixelField(serialized.value, q, i, 1) = stored.g
                /\ PixelField(serialized.value, q, i, 2) = stored.b

\* C3 as stated: under scheme (8,8,8) an image of any width and height,
\* serialized and then deserialized, comes back Ok and equal to itself.
C3_RoundTripFullPrecisionAnySize ==
    (RoundTripped /\ image.value.uniform_quantization = FullPrecision)
        => loaded = Ok(image.value)

\* C3, amended: under scheme (8,8,8) an image whose width and height are
\* both below 2^32, serialized and then deserialized, comes back Ok and
\* equal to itself (the empty 0x0 image included).
C3_RoundTripFullPrecision ==
    (/\ RoundTripped
     /\ image.value.uniform_quantization = FullPrecision
     /\ Fits32(image.value.width)
     /\ Fits32(image.value.height))
        => loaded = Ok(image.value)

\* A two-pixel full-precision image with a pixel that is not black came
\* back from its own serialization.
C3_Witness ==
    /\ RoundTripped
    /\ image.value.uniform_quantization = FullPrecision
    /\ Len(image.value.data) = 2
    /\ image.value.data[2] = Rgb(12, 6, 12)
    /\ loaded = Ok(image.value)

\* C4: a serialized image followed by one or more extra bytes deserializes
\* Ok, to the same result as the serialized image alone.
C4_TrailingBytesIgnored ==
    (pc = "loaded" /\ edit = "append")
        => (loaded.tag = "Ok" /\ loaded = deserialize(serialized.value))

\* The whole chunks of pixel data a truncated buffer still holds.
ChunksFound ==
    LET q == image.value.uniform_quantization IN
    (Len(buf) * U8Bits - HeaderBits) \div (q.bits_r + q.bits_g + q.bits_b)

\* C5: a buffer with the magic and a whole header but fewer whole chunks
\* than width * height fails with InvalidImageDimension(found, expected).
C5_TooFewChunksIsDimensionError ==
    (/\ pc = "loaded"
     /\ edit = "truncate"
     /\ Len(buf) * U8Bits >= HeaderBits
     /\ Fits32(image.value.width) /\ Fits32(image.value.height)
     /\ ChunksFound < UMul(image.value.width, image.value.height).lo)
        => loaded = Err(InvalidImageDimension(
                            USize(ChunksFound),
                            UMul(image.value.width, image.value.height)))

\* C6: a buffer whose first 8 bytes are not the magic value, or that is
\* shorter than the 140-bit header, deserializes to an error.
C6_BadMagicOrShortHeaderIsError ==
    (/\ pc = "loaded"
     /\ \/ (Len(buf) >= Len(MAGIC) /\ SubSeq(buf, 1, Len(MAGIC)) # MAGIC)
        \/ Len(buf) * U8Bits < HeaderBits)
        => loaded.tag = "Err"

\* A buffer that differs from a serialized image in one bit of the magic
\* value was rejected.
C6_Witness ==
    /\ pc = "loaded"
    /\ edit = "magic"
    /\ Len(buf) * U8Bits > HeaderBits
    /\ loaded = Err(GreenfieldFromDeku(DekuParse))

C8_DataLenIsWidthTimesHeight ==
    /\ image.tag = "Ok" =>
           USize(Len(image.value.data))
               = UMul(image.value.width, image.value.height)
    /\ loaded.tag = "Ok" =>
           USize(Len(loaded.value.data))
               = UMul(loaded.value.width, loaded.value.height)

\* An image was deserialized from a buffer with bytes after its pixels.
C8_Witness ==
    /\ edit = "append"
    /\ loaded.tag = "Ok"
    /\ Len(loaded.value.data) = 2

\* C9: an Image that deserialize returns has its three levels in 1..8.
C9_LoadedSchemeIsValid ==
    loaded.tag = "Ok" =>
        /\ loaded.value.uniform_quantization.bits_r \in 1..8
        /\ loaded.value.uniform_quantization.bits_g \in 1..8
        /\ loaded.value.uniform_quantization.bits_b \in 1..8

\* C10: UniformQuantization::new is Ok, with its arguments as fields,
\* exactly when the three levels are in 1..8, and otherwise
\* InvalidQuantizationLevel of its arguments; the default is (8,8,8).
C10_NewChecksLevels ==
    /\ qargs.call = "new" =>
           LET r == qargs.levels[1]
               g == qargs.levels[2]
               b == qargs.levels[3]
           IN  IF r >= 1 /\ r <= 8 /\ g >= 1 /\ g <= 8 /\ b >= 1 /\ b <= 8
               THEN quant = Ok([bits_r |-> r, bits_g |-> g, bits_b |-> b])
               ELSE quant = Err(InvalidQuantizationLevel(r, g, b))
    /\ qargs.call = "default" =>
           quant = Ok([bits_r |-> 8, bits_g |-> 8, bits_b |-> 8])

\* UniformQuantization::new refused a level of 0 beside two valid ones.
C10_Witness ==
    /\ qargs.call = "new"
    /\ qargs.levels = <<8, 0, 1>>
    /\ quant.tag = "Err"

----------------------------------------------------------------------------
(* The functions of a scheme.                                              *)

\* The calls of op made so far.
CallsOf(op) == {i \in 1..Len(calls) : calls[i].op = op}

\* value >> (8 - b), for a level b in 1..8
ShiftedRight(value, b) == value \div (2 ^ (8 - b))

\* C11: under every valid scheme, also one that mixes 8-bit and narrower
\* channels, get_quantized_color returns for each channel its value shifted
\* right by 8 minus the channel's level, a value in [0, 2^level - 1].
C11_QuantizeShiftsEachChannel ==
    \A i \in CallsOf("get_quantized_color") :
        LET q == quant.value
            c == calls[i].arg
            res == calls[i].result
        IN  /\ res = Rgb(ShiftedRight(c.r, q.bits_r),
                         ShiftedRight(c.g, q.bits_g),
                         ShiftedRight(c.b, q.bits_b))
            /\ res.r \in 0..(2 ^ q.bits_r - 1)
            /\ res.g \in 0..(2 ^ q.bits_g - 1)
            /\ res.b \in 0..(2 ^ q.bits_b - 1)

\* White was quantized under (5,6,5), and some color under a scheme that
\* mixes an 8-bit channel with narrower ones.
C11_Witness ==
    /\ Len(calls) = 1
    /\ calls[1].op = "get_quantized_color"
    /\ \/ /\ quant.value = UniformQuantization(5, 6, 5)
          /\ calls[1].arg = Rgb(255, 255, 255)
          /\ calls[1].result = Rgb(31, 63, 31)
       \/ /\ quant.value = UniformQuantization(8, 5, 5)
          /\ calls[1].arg = Rgb(200, 200, 200)
          /\ calls[1].result = Rgb(200, 25, 25)

\* Each channel of color is below 2 to the power of its level.
IsIndex(q, color) ==
    /\ color.r < 2 ^ q.bits_r
    /\ color.g < 2 ^ q.bits_g
    /\ color.b < 2 ^ q.bits_b

\* (index << (8 - b)) + (1 << (7 - b)) for a level b below 8, and the index
\* itself for the level 8
CellMidpoint(index, b) ==
    IF b = 8 THEN index ELSE index * 2 ^ (8 - b) + 2 ^ (7 - b)

\* C12: under every valid scheme and for every index triple with each
\* channel below 2^level, get_dequantized_color returns, channel by channel,
\* the midpoint of the index's cell when the level is below 8 and the index
\* unchanged when the level is 8, also under a mixed scheme such as
\* (8,5,5); the result fits 8 bits.
C12_DequantizeEachChannel ==
    \A i \in CallsOf("get_dequantized_color") :
        LET q == quant.value
            c == calls[i].arg
            res == calls[i].result
        IN  IsIndex(q, c) =>
                /\ res = Rgb(CellMidpoint(c.r, q.bits_r),
                             CellMidpoint(c.g, q.bits_g),
                             CellMidpoint(c.b, q.bits_b))
                /\ \A v \in {res.r, res.g, res.b} : v \in 0..(2 ^ U8Bits - 1)

\* C13: under the scheme (8,8,8) get_quantized_color and
\* get_dequantized_color both return the color they are given, for every
\* value of every channel.
C13_FullPrecisionIsIdentity ==
    (quant = Ok(UniformQuantization(8, 8, 8))) =>
        \A i \in CallsOf("get_quantized_color")
                 \cup CallsOf("get_dequantized_color") :
            calls[i].result = calls[i].arg

\* Under (8,8,8) a color that is no cell's midpoint was quantized and the
\* result dequantized.
C13_Witness ==
    /\ quant = Ok(UniformQuantization(8, 8, 8))
    /\ Len(calls) = 2
    /\ calls[1].op = "get_quantized_color"
    /\ calls[1].arg = Rgb(255, 255, 255)
    /\ calls[2].op = "get_dequantized_color"
    /\ calls[2].result = Rgb(255, 255, 255)

\* A color was quantized, and then the result was dequantized.
QuantizedThenDequantized ==
    /\ Len(calls) >= 2
    /\ calls[1].op = "get_quantized_color"
    /\ calls[2].op = "get_dequantized_color"

\* C14: under every valid scheme, quantizing a color, dequantizing the
\* result and quantizing again gives what the first quantization gave.
C14_RequantizeIsStable ==
    QuantizedThenDequantized =>
        /\ ~Panicked(calls[2].result)
        /\ Len(calls) = 3 => calls[3].result = calls[1].result

\* A list of colors was compressed, and then the stream got was decompressed.
CompressedThenDecompressed ==
    /\ Len(calls) = 2
    /\ calls[1].op = "compress"
    /\ calls[2].op = "decompress"
    /\ calls[2].arg = calls[1].result.value

\* C15: under every valid scheme, decompressing the compression of a list
\* of colors gives a list of the same length whose k-th element is the k-th
\* color quantized and then dequantized.
C15_DecompressCompress ==
    CompressedThenDecompressed =>
        LET q == quant.value
            colors == calls[1].arg
            back == calls[2].result
        IN  /\ back.tag = "Ok"
            /\ Len(back.value) = Len(colors)
            /\ \A k \in 1..Len(colors) :
                   back.value[k] =
                       get_dequantized_color(q, get_quantized_color(q, colors[k]))

\* bits_r + bits_g + bits_b
ChunkSize(q) == q.bits_r + q.bits_g + q.bits_b

\* Bit j (0 the most significant) of the n-bit number v.
BitMsbFirst(v, n, j) == (v \div 2 ^ (n - 1 - j)) % 2

\* The n bits of the stream bits from bit at (0 the first) on are the n-bit
\* number v, most significant bit first.
FieldHolds(bits, at, n, v) ==
    \A j \in 0..(n - 1) : bits[at + j + 1] = BitMsbFirst(v, n, j)

\* C16: compress returns exactly colors.len() * (bits_r + bits_g + bits_b)
\* bits; record i holds at its start the quantized red on bits_r bits, most
\* significant bit first, then the quantized green on bits_g bits, then the
\* quantized blue on bits_b bits, with nothing between channels or records.
C16_CompressLayout ==
    \A c \in CallsOf("compress") :
        LET q == quant.value
            chunk == ChunkSize(q)
            colors == calls[c].arg
            res == calls[c].result
        IN  /\ res.tag = "Ok"
            /\ Len(res.value) = Len(colors) * chunk
            /\ \A i \in 0..(Len(colors) - 1) :
                   LET color == colors[i + 1] IN
                   /\ FieldHolds(res.value, i * chunk, q.bits_r,
                                 ShiftedRight(color.r, q.bits_r))
                   /\ FieldHolds(res.value, i * chunk + q.bits_r, q.bits_g,
                                 ShiftedRight(color.g, q.bits_g))
                   /\ FieldHolds(res.value, i * chunk + q.bits_r + q.bits_g,
                                 q.bits_b, ShiftedRight(color.b, q.bits_b))

\* Two colors were compressed under (5,6,5) into two 16-bit records.
C16_Witness ==
    /\ quant = Ok(UniformQuantization(5, 6, 5))
    /\ Len(calls) = 1
    /\ calls[1].op = "compress"
    /\ calls[1].arg = <<Rgb(12, 6, 12), Rgb(255, 255, 255)>>
    /\ calls[1].result =
           Ok(<<0, 0, 0, 0, 1, 0, 0, 0, 0, 0, 1, 0, 0, 0, 0, 1,
                1, 1, 1, 1, 1, 1, 1, 1, 1, 1, 1, 1, 1, 1, 1, 1>>)

\* The n bits of the stream bits from bit at (0 the first) on, read as a
\* big-endian unsigned integer.
FieldValue(bits, at, n) == LoadBits(SubSeq(bits, at + 1, at + n))

\* C17: decompress returns exactly floor(len(bits) / chunk) colors, bits
\* after the last full chunk being ignored; the k-th color is the
\* dequantization of the first bits_r bits, the next bits_g bits and the
\* remaining bits_b bits of chunk k, each read as a big-endian integer.
C17_DecompressLayout ==
    \A c \in CallsOf("decompress") :
        LET q == quant.value
            chunk == ChunkSize(q)
            data == calls[c].arg
            res == calls[c].result
        IN  /\ res.tag = "Ok"
            /\ Len(res.value) = Len(data) \div chunk
            /\ \A k \in 0..(Len(data) \div chunk - 1) :
                   res.value[k + 1] =
                       get_dequantized_color(q,
                           Rgb(FieldValue(data, k * chunk, q.bits_r),
                               FieldValue(data, k * chunk + q.bits_r, q.bits_g),
                               FieldValue(data, k * chunk + q.bits_r + q.bits_g,
                                          q.bits_b)))

----------------------------------------------------------------------------
(* The serialized form and the stored pixels.                              *)

\* The four bytes of bytes that follow the first at bytes are the number v,
\* most significant byte first.
BigEndianAt(bytes, at, v) ==
    \A k \in 0..3 : bytes[at + k + 1] = (v \div 256 ^ (3 - k)) % 256

StoresIndexes(img) ==
    \A i \in 1..Len(img.data) : IsIndex(img.uniform_quantization, img.data[i])

\* C19: the stored pixel array of an image that Image::new returned or that
\* Image::deserialize returned holds quantized values: each stored channel
\* is below 2 to the power of its channel's level.
C19_StoredValuesAreQuantized ==
    /\ (image # None /\ image.tag = "Ok") => StoresIndexes(image.value)
    /\ (loaded # None /\ loaded # Panic /\ loaded.tag = "Ok") =>
           StoresIndexes(loaded.value)

\* C20: an image that Image::new returned holds the width, the height and
\* the scheme it was given, and at each index the quantization of the color
\* given at that index; it has no other field that could keep the colors
\* as they were given.
C20_NewStoresQuantizedColors ==
    (image # None /\ image.tag = "Ok") =>
        LET img == image.value IN
        /\ img.width = args.width
        /\ img.height = args.height
        /\ img.uniform_quantization = args.uniform_quantization
        /\ Len(img.data) = Len(args.data)
        /\ \A i \in 1..Len(args.data) :
               img.data[i] =
                   get_quantized_color(args.uniform_quantization, args.data[i])
        /\ DOMAIN img = {"width", "height", "uniform_quantization", "data"}

\* Image::new built a 2x1 image of scheme (5,6,5) whose stored colors differ
\* from the colors given.
C20_Witness ==
    /\ pc = "image"
    /\ args = Image(USize(2), USize(1), UniformQuantization(5, 6, 5),
                    <<Rgb(12, 6, 12), Rgb(255, 255, 255)>>)
    /\ image = Ok(Image(USize(2), USize(1), UniformQuantization(5, 6, 5),
                        <<Rgb(1, 1, 1), Rgb(31, 63, 31)>>))

\* C25: Image::deserialize returns Ok or Err for every buffer, whatever the
\* levels, the width and the height of its header: it never panics.
C25_DeserializeIsTotal ==
    pc = "loaded" => loaded # Panic

----------------------------------------------------------------------------
(* The pixels of an image.                                                 *)

\* C21: Image::pixels yields one pixel per stored color, in index order,
\* and the pixel of index i has x = i % width and y = i / width, whatever
\* the width and the height, square image or not.
C21_PixelsAreRowMajor ==
    \A c \in CallsOf("pixels") :
        LET img == calls[c].arg
            res == calls[c].result
        IN  /\ res.tag = "Ok"
            /\ Len(res.value) = Len(img.data)
            /\ \A i \in 0..(Len(img.data) - 1) :
                   /\ res.value[i + 1].color = img.data[i + 1]
                   /\ res.value[i + 1].x = i % img.width.lo
                   /\ res.value[i + 1].y = i \div img.width.lo

\* C27: every pixel of an image with width >= 1 and height >= 1 has
\* x < width and y < height, and no two indices yield the same (x, y).
C27_PixelsInBoundsAndDistinct ==
    \A c \in CallsOf("pixels") :
        LET img == calls[c].arg
            res == calls[c].result
        IN  (img.width.lo >= 1 /\ img.height.lo >= 1) =>
                /\ res.tag = "Ok"
                /\ \A i \in 1..Len(res.value) :
                       /\ res.value[i].x < img.width.lo
                       /\ res.value[i].y < img.height.lo
                /\ \A i, j \in 1..Len(res.value) :
                       (res.value[i].x = res.value[j].x
                        /\ res.value[i].y = res.value[j].y) => i = j

----------------------------------------------------------------------------
(* Loading and saving through the external codec.                          *)

\* C22: load_image calls Image::from_file exactly when the decoder reports
\* an unsupported format, and returns any other decode error as it is;
\* save_image calls Image::to_file exactly when the encoder reports an
\* unsupported format, and the caller receives what the fallback returned.
C22_FallbackOnUnsupportedOnly ==
    /\ \A c \in CallsOf("load_image") :
           LET opened == calls[c].arg.opened
               res == calls[c].result
           IN  /\ res.read_file <=> opened.kind = "Unsupported"
               /\ res.read_file => res.ret = from_file(calls[c].arg.read)
               /\ opened.kind = "IoError" => res.ret = Err(ImageError("IoError"))
    /\ \A c \in CallsOf("save_image") :
           LET a == calls[c].arg
               res == calls[c].result
           IN  /\ res.to_file <=> a.encoded = "Unsupported"
               /\ res.to_file => res.ret = to_file(a.image, a.written)

\* The decoder did not know the format of a serialized 1x1 image and
\* load_image returned the image read by Image::from_file.
C22_Witness ==
    /\ Len(calls) = 1
    /\ calls[1].op = "load_image"
    /\ calls[1].arg.opened.kind = "Unsupported"
    /\ calls[1].arg.read = Ok(buf)
    /\ args = Image(USize(1), USize(1), FullPrecision, <<Rgb(12, 6, 12)>>)
    /\ calls[1].result.ret = Ok(args)

\* C23: save_image returns an error whenever the encoder fails for another
\* reason than an unsupported format, and returns Ok only when the encoder
\* wrote the file or the fallback Image::to_file did.
C23_FailedEncodeIsReported ==
    \A c \in CallsOf("save_image") :
        LET a == calls[c].arg
            res == calls[c].result
        IN  /\ a.encoded = "IoError" => res.ret.tag = "Err"
            /\ res.ret.tag = "Ok" =>
                   \/ a.encoded = "Written"
                   \/ a.encoded = "Unsupported" /\ a.written = "Ok"

\* The color whose bytes an encoder is to be handed for the stored color
\* at index i of img: the color itself when img was loaded, which stores
\* dequantized colors, and its dequantization when Image::new built img.
Reconstruction(img, i) ==
    IF loaded # None THEN img.data[i]
    ELSE get_dequantized_color(img.uniform_quantization, img.data[i])

\* C24: the buffer save_image hands to the encoder holds 3 * width * height
\* bytes, r, g, b of each pixel in index order, and each byte is the
\* full-precision reconstruction of its channel, not the quantization
\* index, for images that Image::new built with any scheme and for images
\* that Image::deserialize returned.
C24_EncoderGetsFullPrecision ==
    \A c \in CallsOf("save_image") :
        LET img == calls[c].arg.image
            buffer == calls[c].result.buffer
        IN  /\ Len(buffer) = 3 * img.width.lo * img.height.lo
            /\ \A i \in 1..Len(img.data) :
                   LET color == Reconstruction(img, i) IN
                   /\ buffer[3 * i - 2] = color.r
                   /\ buffer[3 * i - 1] = color.g
                   /\ buffer[3 * i] = color.b

\* C26: an image that Image::deserialize returned serializes to bytes that
\* deserialize to the same image: width, height, scheme and stored colors
\* no longer change after the first load.
C26_ReserializeIsStable ==
    (calls # <<>> /\ calls[1].op = "serialize") =>
        /\ calls[1].result.tag = "Ok"
        /\ Len(calls) = 2 => calls[2].result = Ok(calls[1].arg)

----------------------------------------------------------------------------
(* The transforms of a scheme, continued.                                  *)

\* The in-place call that left the color left and the value-returning call
\* that returned the color returned agree: both panicked, or neither did
\* and the colors are equal.
Agree(left, returned) ==
    /\ Panicked(left) <=> Panicked(returned)
    /\ ~Panicked(returned) => left = returned

\* C28: under every scheme UniformQuantization::new accepts, quantify_color
\* leaves a color equal to what get_quantized_color returns for the color
\* before the call, and dequantify_color leaves a color equal to what
\* get_dequantized_color returns for it.
C28_InPlaceAgreesWithValue ==
    /\ \A c \in CallsOf("quantify_color") :
           Agree(calls[c].result,
                 get_quantized_color(quant.value, calls[c].arg))
    /\ \A c \in CallsOf("dequantify_color") :
           Agree(calls[c].result,
                 get_dequantized_color(quant.value, calls[c].arg))

\* dequantify_color turned the index (1, 1, 1) of scheme (5,6,5) into the
\* midpoint (12, 6, 12), and left a color alone under (8,8,8).
C28_Witness ==
    /\ Len(calls) = 1
    /\ calls[1].op = "dequantify_color"
    /\ \/ /\ quant = Ok(UniformQuantization(5, 6, 5))
          /\ calls[1].arg = Rgb(1, 1, 1)
          /\ calls[1].result = Rgb(12, 6, 12)
       \/ /\ quant = Ok(FullPrecision)
          /\ calls[1].arg = Rgb(200, 200, 200)
          /\ calls[1].result = Rgb(200, 200, 200)

\* The scheme q is (8,8,8) or has all its levels in 1..7.
Unmixed(q) ==
    \/ q = FullPrecision
    \/ \A b \in {q.bits_r, q.bits_g, q.bits_b} : b \in 1..7

\* An index triple was dequantized first.
DequantizedFirst ==
    /\ calls # <<>>
    /\ calls[1].op = "get_dequantized_color"
    /\ IsIndex(quant.value, calls[1].arg)

\* C29: under a scheme that is (8,8,8) or has all levels in 1..7,
\* dequantizing an index triple with each channel below 2^level and
\* quantizing the result gives the index triple back.
C29_QuantizeInvertsDequantize ==
    (DequantizedFirst /\ Unmixed(quant.value)) =>
        /\ ~Panicked(calls[1].result)
        /\ Len(calls) = 2 =>
               /\ calls[2].op = "get_quantized_color"
               /\ calls[2].arg = calls[1].result
               /\ calls[2].result = calls[1].arg

\* The index (31, 31, 31) of scheme (5,6,5) was dequantized to
\* (252, 126, 252) and quantized back.
C29_Witness ==
    /\ quant = Ok(UniformQuantization(5, 6, 5))
    /\ Len(calls) = 2
    /\ calls[1].op = "get_dequantized_color"
    /\ calls[1].arg = Rgb(31, 31, 31)
    /\ calls[1].result = Rgb(252, 126, 252)
    /\ calls[2].result = Rgb(31, 31, 31)

\* |a - b|
Distance(a, b) == IF a >= b THEN a - b ELSE b - a

\* The channel got back for the channel value of level b, through the
\* index index, is within half a cell of value, and computing it from index
\* does not leave the u8 range.
WithinHalfCell(value, index, back, b) ==
    /\ Distance(back, value) <= 2 ^ (7 - b)
    /\ index * 2 ^ (8 - b) + 2 ^ (7 - b) <= 255
    /\ back \in 0..255

\* C30: under a scheme with all levels in 1..7, each channel of
\* get_dequantized_color(get_quantized_color(c)) differs from the channel
\* of c by at most 2^(7 - level), and no channel's computation exceeds 255.
C30_ReconstructionErrorBound ==
    (/\ QuantizedThenDequantized
     /\ \A b \in {quant.value.bits_r, quant.value.bits_g, quant.value.bits_b} :
            b \in 1..7) =>
        LET q == quant.value
            c == calls[1].arg
            index == calls[1].result
            back == calls[2].result
        IN  /\ calls[2].arg = index
            /\ WithinHalfCell(c.r, index.r, back.r, q.bits_r)
            /\ WithinHalfCell(c.g, index.g, back.g, q.bits_g)
            /\ WithinHalfCell(c.b, index.b, back.b, q.bits_b)

\* Black was quantized under (1,1,1) and dequantized to (64, 64, 64), half
\* a cell away, and white under (5,6,5) to (252, 254, 252).
C30_Witness ==
    /\ Len(calls) = 2
    /\ calls[1].op = "get_quantized_color"
    /\ calls[2].op = "get_dequantized_color"
    /\ \/ /\ quant = Ok(UniformQuantization(1, 1, 1))
          /\ calls[1].arg = Rgb(0, 0, 0)
          /\ calls[2].result = Rgb(64, 64, 64)
       \/ /\ quant = Ok(UniformQuantization(5, 6, 5))
          /\ calls[1].arg = Rgb(255, 255, 255)
          /\ calls[2].result = Rgb(252, 254, 252)

====
